---- MODULE Spec2Model ----
(***************************************************************************)
(* A model of github_activity.py: the command line entry point main, the   *)
(* single GET of fetch_activity with its chain of except clauses, the      *)
(* template formatter format_event with its KeyError fallback, the         *)
(* timestamp formatter, and the bounded display loop of display_activity.  *)
(*                                                                         *)
(* Python strings are sequences of string pieces.  Text that the program   *)
(* inspects character by character (command line arguments, timestamps)    *)
(* is one character per piece; literal text of templates and messages is   *)
(* one piece per literal.  Concatenation is \o.  The decorative glyphs     *)
(* that start some output lines are left out of the literals.              *)
(***************************************************************************)
EXTENDS Integers, Sequences, FiniteSets, TLC

VARIABLES
    argv,             \* sys.argv[1:], a sequence of strings
    pc,               \* position of the run
    username,         \* main's local username
    max_events,       \* main's local max_events
    requests,         \* number of GETs issued by urlopen
    fetchError,       \* the exception urlopen/read/loads raised, or NoError
    events,           \* display_activity's local events (the decoded body)
    idx,              \* position of the for loop in events
    displayed_count,  \* display_activity's local displayed_count
    formatted,        \* display_activity's local formatted_event
    stdout,           \* lines written to sys.stdout
    stderr,           \* lines written to sys.stderr
    exitStatus        \* process exit status, NotExited while running

vars == <<argv, pc, username, max_events, requests, fetchError, events, idx,
          displayed_count, formatted, stdout, stderr, exitStatus>>

(***************************************************************************)
(* JSON values as json.loads returns them.  A value is a record [t, v]:    *)
(* t is the Python type, v the string pieces of a str, the decimal digits  *)
(* of a number, or the key -> value function of a dict.                    *)
(***************************************************************************)
Str(s) == [t |-> "str", v |-> s]

Num(s) == [t |-> "num", v |-> s]

None == [t |-> "null", v |-> <<>>]

Map(f) == [t |-> "map", v |-> f]

EmptyDict == Map([k \in {} |-> None])

\* A faulty variant that tests "is not None" instead of the truth value.
TruthyNotNone(val) == val.t # "null"

\* Python truth value of a value: None, "", 0, {} and [] are false.
Truthy(val) ==
    CASE val.t = "null" -> FALSE
      [] val.t = "str"  -> val.v # <<>>
      [] val.t = "num"  -> val.v # <<"0">>
      [] OTHER          -> DOMAIN val.v # {}

\* str(value) as format() and f-strings render it.
Render(val) ==
    CASE val.t = "null" -> <<"None">>
      [] val.t = "str"  -> val.v
      [] val.t = "num"  -> val.v
      [] OTHER          -> <<"{...}">>

\* value[key] as str.format evaluates a [key] index: KeyError on a dict
\* without the key, TypeError on anything that is not a dict.
GetItem(val, key) ==
    IF val.t # "map" THEN [exc |-> "TypeError", val |-> None]
    ELSE IF key \notin DOMAIN val.v THEN [exc |-> "KeyError", val |-> None]
    ELSE [exc |-> "none", val |-> val.v[key]]

\* dict.get(key, default) on an event (a dict of the decoded body).
DictGet(d, key, default) == IF key \in DOMAIN d THEN d[key] ELSE default

(***************************************************************************)
(* EVENT_MESSAGES: each template is a sequence of parts, a literal or a    *)
(* replacement field given by its path of keys.                            *)
(***************************************************************************)
Lit(s) == [lit |-> s, path |-> <<>>]

Fld(p) == [lit |-> "", path |-> p]

RepoName == Fld(<<"repo", "name">>)

EVENT_MESSAGES ==
    [PushEvent |-> <<Lit("Pushed "), Fld(<<"payload", "commits">>),
                     Lit(" commits to "), RepoName>>,
     IssuesEvent |-> <<Fld(<<"payload", "action">>), Lit(" an issue in "), RepoName>>,
     IssueCommentEvent |-> <<Lit("Commented on an issue in "), RepoName>>,
     WatchEvent |-> <<Lit("Starred "), RepoName>>,
     ForkEvent |-> <<Lit("Forked "), RepoName>>,
     CreateEvent |-> <<Lit("Created "), Fld(<<"payload", "ref_type">>),
                       Lit(" in "), RepoName>>,
     DeleteEvent |-> <<Lit("Deleted "), Fld(<<"payload", "ref_type">>),
                       Lit(" in "), RepoName>>,
     PullRequestEvent |-> <<Fld(<<"payload", "action">>),
                            Lit(" a pull request in "), RepoName>>,
     ReleaseEvent |-> <<Lit("Released "), Fld(<<"payload", "release", "tag_name">>),
                        Lit(" in "), RepoName>>,
     PublicEvent |-> <<Lit("Made "), RepoName, Lit(" public")>>,
     MemberEvent |-> <<Fld(<<"payload", "action">>),
                       Lit(" a collaborator to "), RepoName>>]

\* event_type in self.EVENT_MESSAGES
InEventMessages(event_type) ==
    /\ event_type.t = "str"
    /\ Len(event_type.v) = 1
    /\ event_type.v[1] \in DOMAIN EVENT_MESSAGES

\* One replacement field of str.format(**event): the first key is looked up
\* among the keyword arguments, every further key indexes the value found.
RECURSIVE Walk(_, _)
Walk(val, path) ==
    IF path = <<>> THEN [exc |-> "none", val |-> val]
    ELSE LET r == GetItem(val, Head(path))
         IN  IF r.exc # "none" THEN r ELSE Walk(r.val, Tail(path))

FieldLookup(event, path) == Walk(Map(event), path)

\* message_template.format(**event): the parts are expanded left to right and
\* the first field that fails raises.
RECURSIVE Format(_, _)
Format(template, event) ==
    IF template = <<>> THEN [exc |-> "none", text |-> <<>>]
    ELSE LET part == Head(template)
             rest == Format(Tail(template), event)
         IN  IF part.path = <<>>
             THEN IF rest.exc # "none" THEN rest
                  ELSE [exc |-> "none", text |-> <<part.lit>> \o rest.text]
             ELSE LET r == FieldLookup(event, part.path)
                  IN  IF r.exc # "none" THEN [exc |-> r.exc, text |-> <<>>]
                      ELSE IF rest.exc # "none" THEN rest
                      ELSE [exc |-> "none", text |-> Render(r.val) \o rest.text]

(***************************************************************************)
(* _format_timestamp.  datetime.fromisoformat is modelled on the forms     *)
(* YYYY-MM-DD, optionally followed by one separator character and HH:MM or *)
(* HH:MM:SS, optionally followed by a UTC offset +HH:MM or -HH:MM; every   *)
(* other string raises ValueError.  strftime('%Y-%m-%d %H:%M') renders the *)
(* parsed numbers again.                                                   *)
(***************************************************************************)
Digits == {"0", "1", "2", "3", "4", "5", "6", "7", "8", "9"}

DigitVal(c) ==
    CASE c = "0" -> 0 [] c = "1" -> 1 [] c = "2" -> 2 [] c = "3" -> 3
      [] c = "4" -> 4 [] c = "5" -> 5 [] c = "6" -> 6 [] c = "7" -> 7
      [] c = "8" -> 8 [] OTHER -> 9

DigitChar(n) == <<"0", "1", "2", "3", "4", "5", "6", "7", "8", "9">>[n + 1]

AllDigits(s) == \A i \in 1..Len(s) : s[i] \in Digits

\* The number a string of decimal digits denotes.
RECURSIVE Decimal(_)
Decimal(s) ==
    IF s = <<>> THEN 0
    ELSE 10 * Decimal(SubSeq(s, 1, Len(s) - 1)) + DigitVal(s[Len(s)])

\* The decimal digits of a natural number, then padded with zeros to a width.
RECURSIVE ToDigits(_)
ToDigits(n) ==
    IF n < 10 THEN <<DigitChar(n)>> ELSE ToDigits(n \div 10) \o <<DigitChar(n % 10)>>

RECURSIVE ZeroPad(_, _)
ZeroPad(s, width) == IF Len(s) >= width THEN s ELSE ZeroPad(<<"0">> \o s, width)

\* str.replace(old, new) for a one-character old.
RECURSIVE Replace(_, _, _)
Replace(s, old, new) ==
    IF s = <<>> THEN <<>>
    ELSE (IF Head(s) = old THEN new ELSE <<Head(s)>>) \o Replace(Tail(s), old, new)

IsLeap(y) == (y % 4 = 0 /\ y % 100 # 0) \/ y % 400 = 0

DaysInMonth(y, m) ==
    IF m = 2 THEN (IF IsLeap(y) THEN 29 ELSE 28)
    ELSE IF m \in {4, 6, 9, 11} THEN 30 ELSE 31

\* HH:MM at the start of s, with both numbers in range.
ClockOk(s, hmax) ==
    /\ Len(s) >= 5
    /\ AllDigits(SubSeq(s, 1, 2)) /\ s[3] = ":" /\ AllDigits(SubSeq(s, 4, 5))
    /\ Decimal(SubSeq(s, 1, 2)) <= hmax
    /\ Decimal(SubSeq(s, 4, 5)) <= 59

OffsetOk(s) == Len(s) = 6 /\ s[1] \in {"+", "-"} /\ ClockOk(Tail(s), 23)

TimeOk(s) ==
    /\ ClockOk(s, 23)
    /\ LET rest == SubSeq(s, 6, Len(s))
       IN  \/ rest = <<>>
           \/ OffsetOk(rest)
           \/ /\ Len(rest) >= 3
              /\ rest[1] = ":" /\ AllDigits(SubSeq(rest, 2, 3))
              /\ Decimal(SubSeq(rest, 2, 3)) <= 59
              /\ LET tz == SubSeq(rest, 4, Len(rest))
                 IN  tz = <<>> \/ OffsetOk(tz)

DateOk(s) ==
    /\ Len(s) >= 10
    /\ AllDigits(SubSeq(s, 1, 4)) /\ s[5] = "-"
    /\ AllDigits(SubSeq(s, 6, 7)) /\ s[8] = "-"
    /\ AllDigits(SubSeq(s, 9, 10))
    /\ Decimal(SubSeq(s, 1, 4)) >= 1
    /\ Decimal(SubSeq(s, 6, 7)) \in 1..12
    /\ Decimal(SubSeq(s, 9, 10)) \in
           1..DaysInMonth(Decimal(SubSeq(s, 1, 4)), Decimal(SubSeq(s, 6, 7)))

\* datetime.fromisoformat: ok is FALSE where Python raises ValueError.
FromIsoFormat(s) ==
    IF DateOk(s) /\ (Len(s) = 10 \/ (Len(s) >= 12 /\ TimeOk(SubSeq(s, 12, Len(s)))))
    THEN [ok |-> TRUE,
          year |-> Decimal(SubSeq(s, 1, 4)),
          month |-> Decimal(SubSeq(s, 6, 7)),
          day |-> Decimal(SubSeq(s, 9, 10)),
          hour |-> IF Len(s) = 10 THEN 0 ELSE Decimal(SubSeq(s, 12, 13)),
          minute |-> IF Len(s) = 10 THEN 0 ELSE Decimal(SubSeq(s, 15, 16))]
    ELSE [ok |-> FALSE, year |-> 0, month |-> 0, day |-> 0, hour |-> 0, minute |-> 0]

\* dt.strftime('%Y-%m-%d %H:%M')
StrfTime(dt) ==
    ToDigits(dt.year) \o <<"-">> \o ZeroPad(ToDigits(dt.month), 2) \o <<"-">>
        \o ZeroPad(ToDigits(dt.day), 2) \o <<" ">>
        \o ZeroPad(ToDigits(dt.hour), 2) \o <<":">> \o ZeroPad(ToDigits(dt.minute), 2)

format_timestamp(timestamp_str) ==
    LET dt == FromIsoFormat(Replace(timestamp_str, "Z", <<"+", "0", "0", ":", "0", "0">>))
    IN  IF dt.ok THEN StrfTime(dt) ELSE timestamp_str

(***************************************************************************)
(* format_event.  The result is what the call does: it returns a string    *)
(* (kind "str", text the string), returns None (kind "None"), or leaves    *)
(* by an exception the method does not catch (kind "raise", exc its        *)
(* class).  Only KeyError is caught.                                       *)
(***************************************************************************)
Returned(text) == [kind |-> "str", text |-> text, exc |-> "none"]

ReturnedNone == [kind |-> "None", text |-> <<>>, exc |-> "none"]

Raised(exc) == [kind |-> "raise", text |-> <<>>, exc |-> exc]

\* The except KeyError clause:
\* f"{event_type} in {event.get('repo', {}).get('name', 'unknown')}"
Fallback(event, event_type) ==
    LET repo == DictGet(event, "repo", EmptyDict)
    IN  IF repo.t # "map" THEN Raised("AttributeError")
        ELSE Returned(Render(event_type) \o <<" in ">>
                        \o Render(DictGet(repo.v, "name", Str(<<"unknown">>))))

\* The timestamp prefix of the try block.
WithTimestamp(event, message) ==
    LET created_at == DictGet(event, "created_at", None)
    IN  IF ~Truthy(created_at) THEN Returned(message)
        ELSE IF created_at.t # "str" THEN Raised("AttributeError")
        ELSE Returned(format_timestamp(created_at.v) \o <<" - ">> \o message)

\* A faulty variant that looks no type up in EVENT_MESSAGES and formats every
\* event.
format_event_any_type(event) ==
    LET event_type == DictGet(event, "type", None)
        m == Format(<<Lit("Event in "), RepoName>>, event)
    IN  IF m.exc = "none" THEN WithTimestamp(event, m.text)
        ELSE Fallback(event, event_type)

format_event(event) ==
    LET event_type == DictGet(event, "type", None)
    IN  IF InEventMessages(event_type)
        THEN LET m == Format(EVENT_MESSAGES[event_type.v[1]], event)
             IN  IF m.exc = "none" THEN WithTimestamp(event, m.text)
                 ELSE IF m.exc = "KeyError" THEN Fallback(event, event_type)
                 ELSE Raised(m.exc)
        ELSE ReturnedNone

(***************************************************************************)
(* Event records the formatter is applied to.  A key of an event is left   *)
(* out (Absent), or holds a value of the documented shape, or holds a      *)
(* value of another shape (null or a scalar where a mapping is expected).  *)
(***************************************************************************)
Absent == [t |-> "absent", v |-> <<>>]

\* The dict holding the keys of f whose value is not Absent.
MkDict(f) == [k \in {x \in DOMAIN f : f[x].t # "absent"} |-> f[k]]

Event(type, repo, payload, created_at) ==
    MkDict([type |-> type, repo |-> repo, payload |-> payload,
            created_at |-> created_at])

KnownTypes == DOMAIN EVENT_MESSAGES

TypeValues == {Absent, Str(<<"GollumEvent">>)} \cup {Str(<<ty>>) : ty \in KnownTypes}

RepoValues ==
    {Absent, None, Str(<<"octo/hello">>), EmptyDict,
     Map([name |-> Str(<<"octo/hello">>)])}

ReleaseValues ==
    {Absent, None, EmptyDict, Map([tag_name |-> Str(<<"v1.0">>)])}

PayloadValues ==
    {Absent, None, Str(<<"text">>)}
        \cup {Map(MkDict([commits |-> Num(<<"3">>), action |-> Str(<<"opened">>),
                          ref_type |-> Str(<<"branch">>), release |-> r]))
                : r \in ReleaseValues}
        \cup {Map(MkDict([release |-> r])) : r \in ReleaseValues}

IsoZ == <<"2", "0", "2", "4", "-", "0", "1", "-", "1", "5", "T",
          "1", "0", ":", "3", "0", ":", "0", "0", "Z">>

IsoDate == <<"2", "0", "2", "4", "-", "0", "2", "-", "2", "9">>

NotADate == <<"n", "o", "t", "-", "a", "-", "d", "a", "t", "e">>

CreatedAtValues ==
    {Absent, None, Str(<<>>), Str(IsoZ), Str(IsoDate), Str(NotADate), Num(<<"7">>)}

EventDomain ==
    {Event(ty, r, p, c) : ty \in TypeValues, r \in RepoValues,
                          p \in PayloadValues, c \in CreatedAtValues}

(***************************************************************************)
(* The events a feed of the run is drawn from.                             *)
(***************************************************************************)
Repo == Map([name |-> Str(<<"octo/hello">>)])

PushFull ==
    Event(Str(<<"PushEvent">>), Repo, Map([commits |-> Num(<<"3">>)]), Str(IsoZ))

WatchPlain == Event(Str(<<"WatchEvent">>), Repo, EmptyDict, Absent)

Gollum == Event(Str(<<"GollumEvent">>), Repo, EmptyDict, Str(IsoZ))

ReleaseNoTag ==
    Event(Str(<<"ReleaseEvent">>), Repo, Map([release |-> EmptyDict]), Str(IsoZ))

CreateNoRepo ==
    Event(Str(<<"CreateEvent">>), Absent, Map([ref_type |-> Str(<<"branch">>)]), Absent)

PushNullPayload == Event(Str(<<"PushEvent">>), Repo, None, Absent)

IssuesNullRepo == Event(Str(<<"IssuesEvent">>), None, Absent, Absent)

SponsorNullPayload == Event(Str(<<"SponsorshipEvent">>), None, None, Num(<<"7">>))

FeedEvents ==
    {PushFull, WatchPlain, Gollum, ReleaseNoTag, CreateNoRepo, PushNullPayload,
     IssuesNullRepo, SponsorNullPayload}

MaxFeed == 3

RECURSIVE SeqsUpTo(_, _)
SeqsUpTo(S, n) ==
    IF n = 0 THEN {<<>>}
    ELSE LET shorter == SeqsUpTo(S, n - 1)
         IN  shorter \cup {Append(q, x) : q \in shorter, x \in S}

Feeds == SeqsUpTo(FeedEvents, MaxFeed)

List(q) == [t |-> "list", v |-> q]

(***************************************************************************)
(* The command line.  int(s) strips surrounding whitespace and accepts an  *)
(* optional sign followed by decimal digits; str.strip removes surrounding *)
(* whitespace.                                                             *)
(***************************************************************************)
Whitespace == {" ", "\t", "\n"}

RECURSIVE LStrip(_)
LStrip(s) == IF s # <<>> /\ Head(s) \in Whitespace THEN LStrip(Tail(s)) ELSE s

RECURSIVE RStrip(_)
RStrip(s) ==
    IF s # <<>> /\ s[Len(s)] \in Whitespace THEN RStrip(SubSeq(s, 1, Len(s) - 1)) ELSE s

\* A faulty variant that strips nothing.
StripNothing(s) == s

Strip(s) == RStrip(LStrip(s))

\* int(s): ok is FALSE where Python raises ValueError.
IntOf(s) ==
    LET body == Strip(s)
        signed == body # <<>> /\ Head(body) \in {"+", "-"}
        digits == IF signed THEN Tail(body) ELSE body
    IN  IF digits # <<>> /\ AllDigits(digits)
        THEN [ok |-> TRUE,
              val |-> IF signed /\ Head(body) = "-" THEN 0 - Decimal(digits)
                      ELSE Decimal(digits)]
        ELSE [ok |-> FALSE, val |-> 0]

HelpFlags == {<<"-", "h">>, <<"-", "-", "h", "e", "l", "p">>}

Octocat == <<"o", "c", "t", "o", "c", "a", "t">>

UsernameArgs == {Octocat, <<>>, <<" ">>, <<" ", "\t">>} \cup HelpFlags

MaxEventsArgs ==
    {<<"1">>, <<"2">>, <<" ", "2", " ">>, <<"+", "1">>, <<"0">>, <<"-", "3">>,
     <<"a", "b", "c">>, <<"2", ".", "5">>, <<>>}

ArgvDomain ==
    {<<>>} \cup {<<u>> : u \in UsernameArgs}
           \cup {<<u, m>> : u \in UsernameArgs, m \in MaxEventsArgs}

DefaultMaxEvents == 10

UsageLine == <<"GitHub Activity CLI Usage: github-activity <username> [max_events]">>

MaxEventsError == <<"Error: max_events must be a positive integer">>

UsernameError == <<"Error: Username cannot be empty">>

(***************************************************************************)
(* fetch_activity.  The try block ends by returning the decoded body or by *)
(* an exception; the except clauses are tried in order and the first whose *)
(* class is a base of the exception's class handles it.                    *)
(***************************************************************************)
Bases ==
    [HTTPError |-> {"HTTPError", "URLError", "OSError", "Exception"},
     URLError |-> {"URLError", "OSError", "Exception"},
     ConnectionResetError |-> {"ConnectionResetError", "OSError", "Exception"},
     JSONDecodeError |-> {"JSONDecodeError", "ValueError", "Exception"},
     UnicodeDecodeError |-> {"UnicodeDecodeError", "ValueError", "Exception"}]

\* A faulty order, the base class URLError ahead of its subclass HTTPError.
ExceptClausesSwapped == <<"URLError", "HTTPError", "JSONDecodeError", "Exception">>

ExceptClauses == <<"HTTPError", "URLError", "JSONDecodeError", "Exception">>

\* The first except clause that matches an exception of class cls.
Handler(cls) ==
    LET matching == {i \in 1..Len(ExceptClauses) : ExceptClauses[i] \in Bases[cls]}
    IN  ExceptClauses[CHOOSE i \in matching : \A j \in matching : i <= j]

NoError == [cls |-> "none", code |-> 0, reason |-> <<>>]

Exc(cls, code, reason) == [cls |-> cls, code |-> code, reason |-> reason]

FetchErrors ==
    {Exc("HTTPError", 404, <<"Not Found">>),
     Exc("HTTPError", 403, <<"rate limit exceeded">>),
     Exc("HTTPError", 500, <<"Internal Server Error">>),
     Exc("HTTPError", 401, <<"Unauthorized">>),
     Exc("URLError", 0, <<"[Errno -2] Name or service not known">>),
     Exc("ConnectionResetError", 0, <<"[Errno 104] Connection reset by peer">>),
     Exc("JSONDecodeError", 0, <<"Expecting value: line 1 column 1 (char 0)">>),
     Exc("UnicodeDecodeError", 0, <<"'utf-8' codec can't decode byte 0xff">>)}

\* The message the handling except clause passes to _print_error.
ErrorMessage(e, user) ==
    LET h == Handler(e.cls)
    IN  CASE h = "HTTPError" ->
                 IF e.code = 404 THEN <<"User '">> \o user \o <<"' not found">>
                 ELSE IF e.code = 403
                 THEN <<"API rate limit exceeded. Please try again later.">>
                 ELSE <<"GitHub API error: ">> \o ToDigits(e.code) \o <<" - ">> \o e.reason
          [] h = "URLError" -> <<"Network error: ">> \o e.reason
          [] h = "JSONDecodeError" -> <<"Invalid response from GitHub API: ">> \o e.reason
          [] OTHER -> <<"Unexpected error: ">> \o e.reason

\* A faulty variant that prints and returns to its caller.
print_error_returns(message) == [line |-> <<"Error: ">> \o message, exits |-> FALSE]

\* _print_error: the line written to stderr, and whether sys.exit(1) follows.
print_error(message) == [line |-> <<"Error: ">> \o message, exits |-> TRUE]

(***************************************************************************)
(* Lines of display_activity.                                              *)
(***************************************************************************)
FetchingLine(user) == <<"Fetching recent activity for '">> \o user \o <<"'...">>

NoActivityLine(user) == <<"No recent activity found for '">> \o user \o <<"'">>

HeaderLine(user) == <<"Recent activity for ">> \o user \o <<":">>

EventLine(text) == <<"* ">> \o text

NoSupportedLine == <<"No supported event types found in recent activity.">>

SummaryLine(n) == <<"Displaying ">> \o ToDigits(n) \o <<" most recent events.">>

TracebackLine(exc) == <<"Traceback (most recent call last): ", exc>>

\* A faulty variant that never takes the early return.
NeverEmpty(val) == FALSE

\* "not events" of line 131.
IsEmpty(val) == ~Truthy(val)

(***************************************************************************)
(* The run.                                                                *)
(***************************************************************************)
Init ==
    /\ argv \in ArgvDomain
    /\ pc = "main"
    /\ username = <<>>
    /\ max_events = DefaultMaxEvents
    /\ requests = 0
    /\ fetchError = NoError
    /\ events = None
    /\ idx = 0
    /\ displayed_count = 0
    /\ formatted = ReturnedNone
    /\ stdout = <<>>
    /\ stderr = <<>>
    /\ exitStatus = 0

\* main, up to the call of display_activity.
Main ==
    /\ pc = "main"
    /\ LET parsed == IF Len(argv) > 1 THEN IntOf(argv[2])
                     ELSE [ok |-> TRUE, val |-> DefaultMaxEvents]
       IN  IF Len(argv) < 1 \/ argv[1] \in HelpFlags
           THEN /\ stdout' = Append(stdout, UsageLine)
                /\ pc' = "exit"
                /\ UNCHANGED <<username, max_events, stderr, exitStatus>>
           ELSE IF ~parsed.ok \/ parsed.val <= 0
           THEN /\ stderr' = Append(stderr, MaxEventsError)
                /\ exitStatus' = 1
                /\ pc' = "exit"
                /\ username' = argv[1]
                /\ UNCHANGED <<max_events, stdout>>
           ELSE IF Strip(argv[1]) = <<>>
           THEN /\ stderr' = Append(stderr, UsernameError)
                /\ exitStatus' = 1
                /\ pc' = "exit"
                /\ username' = argv[1]
                /\ max_events' = parsed.val
                /\ UNCHANGED stdout
           ELSE /\ pc' = "display"
                /\ username' = argv[1]
                /\ max_events' = parsed.val
                /\ UNCHANGED <<stdout, stderr, exitStatus>>
    /\ UNCHANGED <<argv, requests, fetchError, events, idx, displayed_count, formatted>>

\* display_activity, line 127.
DisplayFetching ==
    /\ pc = "display"
    /\ stdout' = Append(stdout, FetchingLine(username))
    /\ pc' = "fetch"
    /\ UNCHANGED <<argv, username, max_events, requests, fetchError, events, idx,
                   displayed_count, formatted, stderr, exitStatus>>

\* fetch_activity called at line 129: one GET, whose outcome is the decoded
\* body or an exception.  After a handled exception that did not exit the
\* method falls off its end and returns None.
FetchActivity ==
    /\ pc = "fetch"
    /\ requests' = requests + 1
    /\ \E outcome \in {Exc("none", 0, f) : f \in Feeds} \cup FetchErrors :
          IF outcome.cls = "none"
          THEN /\ events' = List(outcome.reason)
               /\ pc' = "fetched"
               /\ UNCHANGED <<fetchError, stderr, exitStatus>>
          ELSE LET p == print_error(ErrorMessage(outcome, username))
               IN  /\ fetchError' = outcome
                   /\ stderr' = Append(stderr, p.line)
                   /\ IF p.exits
                      THEN exitStatus' = 1 /\ pc' = "exit" /\ UNCHANGED events
                      ELSE events' = None /\ pc' = "fetched" /\ UNCHANGED exitStatus
    /\ UNCHANGED <<argv, username, max_events, idx, displayed_count, formatted, stdout>>

\* display_activity, lines 131-137.
DisplayHeader ==
    /\ pc = "fetched"
    /\ IF IsEmpty(events)
       THEN /\ stdout' = Append(stdout, NoActivityLine(username))
            /\ pc' = "exit"
            /\ UNCHANGED <<idx, displayed_count>>
       ELSE /\ stdout' = Append(stdout, HeaderLine(username))
            /\ displayed_count' = 0
            /\ idx' = 1
            /\ pc' = "loop"
    /\ UNCHANGED <<argv, username, max_events, requests, fetchError, events,
                   formatted, stderr, exitStatus>>

\* One pass of the for loop, lines 138-145: the loop ends when the events are
\* exhausted or the budget is spent; an exception format_event lets through
\* ends the process with a traceback and status 1.
LoopStep ==
    /\ pc = "loop"
    /\ IF idx > Len(events.v) \/ displayed_count >= max_events
       THEN /\ pc' = "summary"
            /\ UNCHANGED <<idx, displayed_count, formatted, stdout, stderr, exitStatus>>
       ELSE LET r == format_event(events.v[idx])
            IN  /\ formatted' = r
                /\ IF r.kind = "raise"
                   THEN /\ stderr' = Append(stderr, TracebackLine(r.exc))
                        /\ exitStatus' = 1
                        /\ pc' = "exit"
                        /\ UNCHANGED <<idx, displayed_count, stdout>>
                   ELSE IF r.kind = "str" /\ r.text # <<>>
                   THEN /\ stdout' = Append(stdout, EventLine(r.text))
                        /\ displayed_count' = displayed_count + 1
                        /\ idx' = idx + 1
                        /\ UNCHANGED <<pc, stderr, exitStatus>>
                   ELSE /\ idx' = idx + 1
                        /\ UNCHANGED <<pc, displayed_count, stdout, stderr, exitStatus>>
    /\ UNCHANGED <<argv, username, max_events, requests, fetchError, events>>

\* display_activity, lines 147-150, and the return to main.
DisplaySummary ==
    /\ pc = "summary"
    /\ stdout' = Append(stdout, IF displayed_count = 0 THEN NoSupportedLine
                                ELSE SummaryLine(displayed_count))
    /\ pc' = "exit"
    /\ UNCHANGED <<argv, username, max_events, requests, fetchError, events, idx,
                   displayed_count, formatted, stderr, exitStatus>>

Next ==
    \/ Main
    \/ DisplayFetching
    \/ FetchActivity
    \/ DisplayHeader
    \/ LoopStep
    \/ DisplaySummary

Spec == Init /\ [][Next]_vars

(***************************************************************************)
(* format_event applied to one event record of EventDomain.                *)
(***************************************************************************)
FormatInit ==
    /\ argv = <<>>
    /\ pc = "format"
    /\ username = <<>>
    /\ max_events = DefaultMaxEvents
    /\ requests = 0
    /\ fetchError = NoError
    /\ events \in {List(<<e>>) : e \in EventDomain}
    /\ idx = 1
    /\ displayed_count = 0
    /\ formatted = ReturnedNone
    /\ stdout = <<>>
    /\ stderr = <<>>
    /\ exitStatus = 0

FormatCall ==
    /\ pc = "format"
    /\ formatted' = format_event(events.v[idx])
    /\ pc' = "formatted"
    /\ UNCHANGED <<argv, username, max_events, requests, fetchError, events, idx,
                   displayed_count, stdout, stderr, exitStatus>>

FormatNext == FormatCall

FormatSpec == FormatInit /\ [][FormatNext]_vars

(***************************************************************************)
(* Vocabulary of the properties.                                           *)
(***************************************************************************)
\* The event's type is one of the 11 known types.
KnownType(e) ==
    /\ "type" \in DOMAIN e
    /\ e["type"].t = "str"
    /\ \E ty \in KnownTypes : e["type"].v = <<ty>>

TemplatePaths(e) ==
    LET template == EVENT_MESSAGES[e["type"].v[1]]
    IN  {template[i].path : i \in 1..Len(template)} \ {<<>>}

\* A field the template of the event's type refers to is missing: a key of
\* its path is absent from the mapping that should hold it.
MissingField(e) == \E p \in TemplatePaths(e) : FieldLookup(e, p).exc = "KeyError"

\* A field the template refers to sits in something that is present but is
\* not a mapping (null or a scalar).
WrongShapeField(e) == \E p \in TemplatePaths(e) : FieldLookup(e, p).exc = "TypeError"

\* Every key that is present holds a value of the documented shape.
DocumentedShape(e) ==
    /\ "repo" \in DOMAIN e => e["repo"].t = "map"
    /\ "payload" \in DOMAIN e =>
           /\ e["payload"].t = "map"
           /\ "release" \in DOMAIN e["payload"].v => e["payload"].v["release"].t = "map"
    /\ "created_at" \in DOMAIN e => e["created_at"].t \in {"str", "null"}

\* '<type> in <repo.name>', or '<type> in unknown' when repo.name is absent.
GenericLine(e) ==
    e["type"].v \o <<" in ">> \o
        (IF "repo" \in DOMAIN e /\ e["repo"].t = "map" /\ "name" \in DOMAIN e["repo"].v
         THEN Render(e["repo"].v["name"]) ELSE <<"unknown">>)

\* The record carries a created_at value.
CarriesCreatedAt(e) == "created_at" \in DOMAIN e /\ e["created_at"].t # "null"

\* The text starts with the Timestamp Formatter's output for the record's
\* created_at, followed by " - ".
Prefixed(text, e) ==
    /\ "created_at" \in DOMAIN e
    /\ e["created_at"].t = "str"
    /\ LET ts == format_timestamp(e["created_at"].v)
       IN  /\ Len(text) > Len(ts)
           /\ SubSeq(text, 1, Len(ts) + 1) = ts \o <<" - ">>

FetchSucceeded == requests = 1 /\ fetchError = NoError /\ events.t = "list"

IsEventLine(line) == line[1] = "* "

IsSummaryLine(line) == line[1] = "Displaying "

Min(a, b) == IF a <= b THEN a ELSE b

\* The event format_event was applied to in FormatSpec.
TheEvent == events.v[1]

(***************************************************************************)
(* C1: for every feed and every positive max_events, the run prints event  *)
(* lines for exactly the first min(max_events, S) events of a known type,  *)
(* in feed order, S being the number of known-type events of the feed;     *)
(* events of an unknown type print nothing and use no budget; and the      *)
(* summary line states that number.                                        *)
(***************************************************************************)
FirstKnownDisplayed ==
    LET known == SelectSeq(events.v, KnownType)
        n == Min(max_events, Len(known))
        printed == SelectSeq(stdout, IsEventLine)
    IN  /\ Len(printed) = n
        /\ \A k \in 1..Min(n, Len(printed)) :
               printed[k] = EventLine(format_event(known[k]).text)
        /\ \A i \in 1..Len(stdout) :
               IsSummaryLine(stdout[i]) => stdout[i] = SummaryLine(n)
        /\ n > 0 => stdout[Len(stdout)] = SummaryLine(n)

C1_FirstKnownDisplayed ==
    (pc = "exit" /\ FetchSucceeded /\ max_events > 0) => FirstKnownDisplayed

\* The same on the feeds all of whose events have the documented shape.
FirstKnownDisplayedOnShapedFeeds ==
    (/\ pc = "exit" /\ FetchSucceeded /\ max_events > 0
     /\ \A i \in 1..Len(events.v) : DocumentedShape(events.v[i]))
        => FirstKnownDisplayed

(***************************************************************************)
(* C2: for every event record of a known type in which a field referenced  *)
(* by the type's template is missing, format_event returns the fallback    *)
(* line '<type> in <repo.name>', or '<type> in unknown' when repo.name is   *)
(* absent too, and never raises.                                           *)
(***************************************************************************)
C2_MissingFieldFallsBack ==
    (pc = "formatted" /\ KnownType(TheEvent) /\ MissingField(TheEvent))
        => formatted = Returned(GenericLine(TheEvent))

\* The same on the records whose present keys have the documented shape.
MissingFieldFallsBackOnShapedEvents ==
    (/\ pc = "formatted" /\ KnownType(TheEvent) /\ MissingField(TheEvent)
     /\ DocumentedShape(TheEvent))
        => formatted = Returned(GenericLine(TheEvent))

(***************************************************************************)
(* C3: for every event record of a known type, the line format_event       *)
(* returns is prefixed with the Timestamp Formatter's output and " - "     *)
(* whenever the record carries a created_at value, and is unprefixed only  *)
(* when it carries none, for template lines and fallback lines alike.      *)
(***************************************************************************)
C3_PrefixedWheneverCreatedAt ==
    (pc = "formatted" /\ KnownType(TheEvent) /\ formatted.kind = "str")
        => (CarriesCreatedAt(TheEvent) <=> Prefixed(formatted.text, TheEvent))

(***************************************************************************)
(* C3 as amended: a returned line is prefixed with the Timestamp           *)
(* Formatter's output and " - " exactly when it is produced from the       *)
(* template and created_at is a non-empty string; a template line of a     *)
(* record whose created_at is absent, null or empty is unprefixed, and     *)
(* the fallback line is never prefixed.                                    *)
(***************************************************************************)
C3_PrefixedTemplateLineOnly ==
    (pc = "formatted" /\ KnownType(TheEvent) /\ formatted.kind = "str")
        => /\ Prefixed(formatted.text, TheEvent) <=>
                  /\ ~MissingField(TheEvent)
                  /\ CarriesCreatedAt(TheEvent)
                  /\ TheEvent["created_at"].v # <<>>
           /\ MissingField(TheEvent) => formatted.text = GenericLine(TheEvent)

C3_Witness ==
    /\ pc = "formatted"
    /\ KnownType(TheEvent)
    /\ TheEvent["type"].v = <<"ReleaseEvent">>
    /\ ~MissingField(TheEvent)
    /\ "created_at" \in DOMAIN TheEvent
    /\ TheEvent["created_at"] = Str(IsoZ)
    /\ formatted.kind = "str"
    /\ formatted.text =
           <<"2", "0", "2", "4", "-", "0", "1", "-", "1", "5", " ",
             "1", "0", ":", "3", "0", " - ",
             "Released ", "v1.0", " in ", "octo/hello">>

(***************************************************************************)
(* C4: fetch_activity puts every failure of the single GET into exactly    *)
(* one category with its own message: HTTP 404 user not found, HTTP 403    *)
(* rate limited, any other HTTP error status API error with status code    *)
(* and reason, transport failure (urllib's URLError) network error, a body *)
(* that is not valid JSON invalid response, anything else unexpected       *)
(* error; the message goes to the error stream and the process exits with  *)
(* status 1.                                                               *)
(***************************************************************************)
Category(e) ==
    CASE e.cls = "HTTPError" /\ e.code = 404 -> "user not found"
      [] e.cls = "HTTPError" /\ e.code = 403 -> "rate limited"
      [] e.cls = "HTTPError" /\ e.code \notin {403, 404} -> "API error"
      [] e.cls = "URLError" -> "network error"
      [] e.cls = "JSONDecodeError" -> "invalid response"
      [] OTHER -> "unexpected error"

CategoryMessage(e, user) ==
    LET c == Category(e)
    IN  CASE c = "user not found" -> <<"User '">> \o user \o <<"' not found">>
          [] c = "rate limited" -> <<"API rate limit exceeded. Please try again later.">>
          [] c = "API error" ->
                 <<"GitHub API error: ">> \o ToDigits(e.code) \o <<" - ">> \o e.reason
          [] c = "network error" -> <<"Network error: ">> \o e.reason
          [] c = "invalid response" ->
                 <<"Invalid response from GitHub API: ">> \o e.reason
          [] OTHER -> <<"Unexpected error: ">> \o e.reason

Blank(s) == \A i \in 1..Len(s) : s[i] \in Whitespace

BadMaxEvents == Len(argv) >= 2 /\ (~IntOf(argv[2]).ok \/ IntOf(argv[2]).val <= 0)

BadUsername == Len(argv) >= 1 /\ Blank(argv[1])

RejectedBeforeFetch ==
    /\ pc = "exit"
    /\ exitStatus = 1
    /\ stderr = IF BadMaxEvents THEN <<MaxEventsError>> ELSE <<UsernameError>>
    /\ stdout = <<>>
    /\ requests = 0

C5_InvalidArgumentsRejected ==
    (pc # "main" /\ (BadMaxEvents \/ BadUsername)) => RejectedBeforeFetch

(***************************************************************************)
(* C5 as amended: the same for every command line whose first argument is  *)
(* not -h or --help; when it is, main prints the usage and exits with      *)
(* status 0 whatever the other argument is, again with no GET.             *)
(***************************************************************************)
C5_InvalidArgumentsRejectedUnlessHelp ==
    /\ (pc # "main" /\ (BadMaxEvents \/ BadUsername) /\ argv[1] \notin HelpFlags)
           => RejectedBeforeFetch
    /\ (pc # "main" /\ Len(argv) >= 1 /\ argv[1] \in HelpFlags)
           => /\ pc = "exit" /\ exitStatus = 0 /\ requests = 0
              /\ stdout = <<UsageLine>> /\ stderr = <<>>

C5_Witness ==
    /\ pc = "exit"
    /\ argv = <<<<" ", "\t">>, <<"2">>>>
    /\ stderr = <<UsernameError>>
    /\ exitStatus = 1

(***************************************************************************)
(* C6: when the fetch succeeds with an empty sequence of events, the run   *)
(* emits the 'no recent activity' line and ends normally with status 0:   *)
(* no header, event, 'no supported event types' or summary line.           *)
(***************************************************************************)
C6_EmptyFeed ==
    (FetchSucceeded /\ events.v = <<>>) =>
        /\ pc \in {"fetched", "exit"}
        /\ exitStatus = 0
        /\ stderr = <<>>
        /\ pc = "exit" =>
               stdout = <<FetchingLine(username), NoActivityLine(username)>>
        /\ pc = "fetched" => stdout = <<FetchingLine(username)>>

C6_Witness ==
    /\ pc = "exit"
    /\ FetchSucceeded
    /\ events.v = <<>>
    /\ Len(stdout) = 2

(***************************************************************************)
(* C7: when the fetch succeeds with a non-empty feed in which no event has *)
(* a known type, the run prints no event line, emits the 'no supported     *)
(* event types' line instead of a summary line, and ends with status 0,   *)
(* for every positive max_events.                                          *)
(***************************************************************************)
NoKnownType == events.v # <<>> /\ \A i \in 1..Len(events.v) : ~KnownType(events.v[i])

C7_NoSupportedTypes ==
    (FetchSucceeded /\ NoKnownType /\ max_events > 0) =>
        /\ \A i \in 1..Len(stdout) :
               ~IsEventLine(stdout[i]) /\ ~IsSummaryLine(stdout[i])
        /\ exitStatus = 0
        /\ stderr = <<>>
        /\ displayed_count = 0
        /\ pc = "exit" =>
               stdout = <<FetchingLine(username), HeaderLine(username), NoSupportedLine>>

C7_Witness ==
    /\ pc = "exit"
    /\ FetchSucceeded
    /\ NoKnownType
    /\ Len(events.v) = 2
    /\ events.v[1] # events.v[2]
    /\ stdout[Len(stdout)] = NoSupportedLine

(***************************************************************************)
(* C8: for every event record of a known type in which a field referenced  *)
(* by the template is present but of the wrong shape (payload,             *)
(* payload.release or repo holding a scalar or null instead of a mapping), *)
(* format_event does not fail: it returns the generic fallback line        *)
(* '<type> in <repo.name or "unknown">'.                                   *)
(***************************************************************************)
C8_WrongShapeFallsBack ==
    (pc = "formatted" /\ KnownType(TheEvent) /\ WrongShapeField(TheEvent))
        => formatted = Returned(GenericLine(TheEvent))

(***************************************************************************)
(* C9: on every run in which the fetch fails, the failure is terminal at   *)
(* the fetch: exactly one error message is printed, at most one GET is     *)
(* issued per run, control never returns to display_activity, so nothing   *)
(* follows the 'fetching' line on stdout, and the exit status is 1.        *)
(***************************************************************************)
C9_FetchFailureTerminal ==
    /\ requests <= 1
    /\ fetchError # NoError =>
           /\ pc = "exit"
           /\ requests = 1
           /\ Len(stderr) = 1
           /\ stdout = <<FetchingLine(username)>>
           /\ exitStatus = 1

C9_Witness ==
    /\ pc = "exit"
    /\ fetchError = Exc("HTTPError", 404, <<"Not Found">>)
    /\ requests = 1
    /\ stdout = <<FetchingLine(Octocat)>>

(***************************************************************************)
(* C10: a formatting failure caused by a missing template field never      *)
(* aborts display_activity and counts as displayed: in the pass of the     *)
(* loop that reaches such an event with budget left, the fallback line is  *)
(* printed, displayed_count grows by one, and the loop goes on.            *)
(***************************************************************************)
AtMissingFieldEvent ==
    /\ pc = "loop"
    /\ idx <= Len(events.v)
    /\ displayed_count < max_events
    /\ KnownType(events.v[idx])
    /\ MissingField(events.v[idx])

FallbackDisplayed ==
    /\ pc' = "loop"
    /\ stdout' = Append(stdout, EventLine(GenericLine(events.v[idx])))
    /\ displayed_count' = displayed_count + 1
    /\ idx' = idx + 1

C10_FallbackCountsAsDisplayed == [][AtMissingFieldEvent => FallbackDisplayed]_vars

\* The same at the events whose present keys have the documented shape.
FallbackCountsOnShapedEvents ==
    [][(AtMissingFieldEvent /\ DocumentedShape(events.v[idx])) => FallbackDisplayed]_vars

====
